---------------------------- MODULE Spec2Model ----------------------------
(***************************************************************************)
(* A model of wsmon.py, the website monitor: main() selects a datastore    *)
(* (Database or YAMLFile), builds one WSData per configured site and runs  *)
(* one wrapper() task per site over a single asyncio event loop.  Every    *)
(* task step runs from one await to the next, so each action of a task is  *)
(* one such step.  The __main__ block turns a KeyboardInterrupt into       *)
(* datastore.save() and sys.exit("Bye!"); Interrupt is that whole handler, *)
(* the cancellation of the tasks by asyncio.run included.                  *)
(***************************************************************************)
EXTENDS Integers, Sequences, FiniteSets, TLC

\* ------------------------------------------------------------------ bounds
NumSites == 2         \* sites listed in the configuration
MaxProbes == 3        \* probes started over the whole run (all sites together)
MaxTime == 1          \* largest reading of the wall clock
MaxRetryBound == 2    \* largest max_retry the configuration assigns
MaxIntervalInput == 305  \* largest check_interval tried on WSData.__init__

\* --------------------------------------------------------- program constants
interval_min == 5
interval_max == 300
default_max_retry == 2
default_check_interval == 5
ERROR_STATUS == 444

\* ------------------------------------------------------------------- text
\* A Python str is a sequence of one-character strings.
not_used == <<"n", "o", "t", " ", "u", "s", "e", "d">>
no_match_found == <<"n", "o", " ", "m", "a", "t", "c", "h", " ", "f", "o", "u", "n", "d">>
found_suffix == <<" ", "f", "o", "u", "n", "d">>
ERROR_TEXT == <<"E", "R", "R", "O", "R">>

\* pattern=None, and a pattern given as a str
None == [isNone |-> TRUE, src |-> <<>>]
Some(p) == [isNone |-> FALSE, src |-> p]

\* Python truthiness of site.pattern: None and "" are both falsy
Truthy(pat) == ~pat.isNone /\ pat.src # <<>>

\* re.compile raises re.error on an unbalanced "(" (the patterns used here are
\* literal characters and "(")
Compiles(p) == \A i \in 1..Len(p) : p[i] # "("

\* pattern.search(text) for a pattern of literal characters: a match anywhere
Search(p, text) ==
    \E i \in 0..(Len(text) - Len(p)) : SubSeq(text, i + 1, i + Len(p)) = p

\* ------------------------------------------------------------ configuration
Sites == 1..NumSites

Statuses == {200, 404, 444}
Bodies == {<<"b">>, <<"b", "a">>}

\* what the servers of a run answer: a status and a body
Responses ==
    {r \in [status : Statuses, text : Bodies] : r.status = 404 <=> r.text = <<"b">>}

\* site entries of a configuration file: the keyword arguments of
\* WSData(**site); check_interval and pattern are optional
ValidEntries ==
    << [url |-> "u1"],
       [url |-> "u1", check_interval |-> interval_max, pattern |-> Some(<<"a">>)],
       [url |-> "u2", check_interval |-> 111, pattern |-> Some(<<>>)],
       [url |-> "u2", check_interval |-> interval_min, pattern |-> Some(<<"(">>)] >>

\* config['sites'] with NumSites consecutive entries of ValidEntries (going
\* round), starting after the k-th
SiteList(k) == [s \in Sites |-> ValidEntries[((k + s - 1) % Len(ValidEntries)) + 1]]

\* the same with the given check_interval for the first site
WithInterval(list, ci) ==
    [s \in Sites |-> IF s = 1 THEN [url |-> list[1].url, check_interval |-> ci]
                     ELSE list[s]]

\* the configuration files tried: two with every interval in range, two with
\* one interval just out of range
SiteLists ==
    {SiteList(0), SiteList(2),
     WithInterval(SiteList(0), interval_min - 1),
     WithInterval(SiteList(2), interval_max + 1)}

\* configuration files that differ in the check_interval of one site
IntervalLists == {WithInterval(SiteList(3), ci) : ci \in 0..MaxIntervalInput}

MaxRetryValues == (0 - 1)..MaxRetryBound

\* WSData.__init__'s assertion on check_interval
IntervalOk_strict(ci) == ci > interval_min /\ ci < interval_max

IntervalOk(ci) == ci >= interval_min /\ ci <= interval_max

\* WSData(url, check_interval, pattern): the object, or the AssertionError
WSData(url, ci, pat) ==
    IF IntervalOk(ci)
    THEN [ok |-> TRUE, url |-> url, check_interval |-> ci, pattern |-> pat]
    ELSE [ok |-> FALSE, url |-> "", check_interval |-> 0, pattern |-> None]

\* WSData(**site): the defaults of __init__ stand in for the keys left out
FromEntry(e) ==
    WSData(e.url,
           IF "check_interval" \in DOMAIN e THEN e.check_interval
           ELSE default_check_interval,
           IF "pattern" \in DOMAIN e THEN e.pattern ELSE None)


\* regexp_check of monitor_website, from site.pattern and the response text
RegexCheck(pat, text) ==
    IF Truthy(pat)
    THEN IF Search(pat.src, text) THEN pat.src \o found_suffix ELSE no_match_found
    ELSE not_used

\* the six values handed to datastore.insert
Observation(url, status_code, request_time_, response_time, time_diff, regex_check) ==
    [url |-> url, status_code |-> status_code, request_time |-> request_time_,
     response_time |-> response_time, time_diff |-> time_diff,
     regex_check |-> regex_check]

\* ------------------------------------------------------------------- state
VARIABLES
    config,        \* the parsed configuration file and the -r option
    max_retry,     \* the class attribute WSData.max_retry
    datastore,     \* the module global: "None", "Database" or "YAMLFile"
    mainpc,        \* where main() / the __main__ block stands
    sites,         \* main's list of WSData objects (<<>> before it is built)
    pc,            \* where each site's wrapper() task stands
    retry,         \* wrapper's local retry, per site
    request_time,  \* monitor_website's local request_time, per site
    pending,       \* the observation of a Database.insert that is being awaited
    results,       \* YAMLFile.results
    handed,        \* history: the observations handed to YAMLFile.insert, in call order
    table,         \* the rows of the database table
    file,          \* results.yaml on disk
    clock,         \* the last reading of datetime.now()
    stat,          \* history, per site: probes, responses, insert calls, writes,
                   \* failure records written, sleeps begun
    server_status, \* the status code the servers answer with in this run
    server_text,   \* the body the servers answer with in this run
    sleep_for,     \* per site: the delay of the asyncio.sleep it waits in, or 0
    ticking,       \* whether the clock advances between the readings of this run
    sup            \* history of the process: create_table and save calls, interrupt

vars == <<config, max_retry, datastore, mainpc, sites, pc, retry, request_time,
          pending, results, handed, table, file, clock, stat, server_status, server_text, sleep_for,
          ticking, sup>>

\* a reading of datetime.now(): the wall clock does not run backwards, and two
\* readings can be equal; in a run shorter than the clock's resolution
\* (~ticking) all of them are
Readings(c) == IF ticking /\ c < MaxTime THEN {c, c + 1} ELSE {c}

Active == {"Ready", "Probing", "InsertObs", "InsertFail", "Sleeping"}

Sum(f, S) ==
    LET RECURSIVE Acc(_)
        Acc(T) == IF T = {} THEN 0
                  ELSE LET x == CHOOSE y \in T : TRUE IN f[x] + Acc(T \ {x})
    IN Acc(S)

TotalProbes == Sum([s \in Sites |-> stat[s].probes], Sites)
TotalCalls == Sum([s \in Sites |-> stat[s].calls], Sites)

\* the state when asyncio.run(main()) starts, for a set of configurations
InitWith(configs, tick) ==
    /\ config \in configs
    /\ ticking = tick
    /\ max_retry = default_max_retry
    /\ datastore = "None"
    /\ mainpc = "parse"
    /\ sites = <<>>
    /\ pc = [s \in Sites |-> "NotStarted"]
    /\ retry = [s \in Sites |-> 0]
    /\ request_time = [s \in Sites |-> 0]
    /\ pending = [s \in Sites |-> <<>>]
    /\ results = <<>>
    /\ handed = <<>>
    /\ table = <<>>
    /\ file = [exists |-> FALSE, doc |-> <<>>]
    /\ clock = 0
    /\ \E r \in Responses : server_status = r.status /\ server_text = r.text
    /\ sleep_for = [s \in Sites |-> 0]
    /\ stat = [s \in Sites |-> [probes |-> 0, responses |-> 0, calls |-> 0,
                                written |-> 0, cycleCalls |-> 0,
                                failures |-> 0, sleeps |-> 0]]
    /\ sup = [create_calls |-> 0, create_failed |-> FALSE, save_calls |-> 0,
              interrupted |-> FALSE, launched |-> FALSE]

\* every configuration with a clock too coarse to tell the readings of the
\* run apart, and the -r runs of the first site list with the default
\* max_retry under a clock that advances
Init ==
    \/ InitWith([results2file : BOOLEAN, max_retry : MaxRetryValues,
                 sites : SiteLists], FALSE)
    \/ InitWith([results2file : {TRUE}, max_retry : {default_max_retry},
                 sites : {SiteList(0)}], TRUE)

\* startup alone, over every check_interval up to MaxIntervalInput
InitWSData ==
    InitWith([results2file : BOOLEAN, max_retry : {default_max_retry},
              sites : IntervalLists], FALSE)

\* ------------------------------------------------------------------- sinks
\* YAMLFile.insert: one single-entry mapping, keyed by f'{request_time} {url}'
Mapping(obs) == (<<obs.request_time, obs.url>> :> obs)

\* a faulty insert that keeps one dict keyed by f'{request_time} {url}'
YAMLInsert_keyed(rs, obs) ==
    IF \E i \in 1..Len(rs) : DOMAIN rs[i] = DOMAIN Mapping(obs)
    THEN [i \in 1..Len(rs) |->
            IF DOMAIN rs[i] = DOMAIN Mapping(obs) THEN Mapping(obs) ELSE rs[i]]
    ELSE Append(rs, Mapping(obs))

\* YAMLFile.insert: self.results.append({...})
YAMLInsert(rs, obs) == Append(rs, Mapping(obs))

\* yaml.dump(self.results, fo): a sequence of mappings, each written as its
\* key: value entries
Dump(rs) == [i \in 1..Len(rs) |-> {<<k, rs[i][k]>> : k \in DOMAIN rs[i]}]

\* Database.insert: one row, id SERIAL
Row(rows, obs) == [id |-> Len(rows) + 1, obs |-> obs]

\* ----------------------------------------------------------------- wrapper
Count(st, s, calls, written) ==
    [st EXCEPT ![s].calls = @ + calls, ![s].written = @ + written,
               ![s].cycleCalls = @ + calls]

\* wrapper's test after the failure record is written, off by one
RetryExhausted_early(r, m) == r + 1 = m

\* wrapper: if retry == WSData.max_retry
RetryExhausted(r, m) == r = m

\* a sleep of the default interval, whatever the site's own
SleepFor_default(site) == default_check_interval

\* wrapper: the argument of asyncio.sleep(site.check_interval)
SleepFor(site) == site.check_interval

\* wrapper: await asyncio.sleep(...) at the end of a turn of the loop
Sleep(s, st) ==
    /\ pc' = [pc EXCEPT ![s] = "Sleeping"]
    /\ sleep_for' = [sleep_for EXCEPT ![s] = SleepFor(sites[s])]
    /\ stat' = [st EXCEPT ![s].sleeps = @ + 1]

\* a wrapper that starts its count again after a probe that went well
RetryAfterSuccess_reset(r) == 0

\* wrapper, after monitor_website returned: no else clause, retry is left alone
RetryAfterSuccess(r) == r

\* wrapper, after the insert of the failure record returned: break, or
\* retry += 1 and await asyncio.sleep(site.check_interval)
AfterFailure(s, st) ==
    LET st1 == [st EXCEPT ![s].failures = @ + 1]
    IN IF RetryExhausted(retry[s], max_retry)
       THEN /\ pc' = [pc EXCEPT ![s] = "Stopped"]
            /\ stat' = st1
            /\ UNCHANGED <<retry, sleep_for>>
       ELSE /\ retry' = [retry EXCEPT ![s] = @ + 1]
            /\ Sleep(s, st1)

\* wrapper's except clause: insert(site.url, 444, now(), now(), 0, "ERROR");
\* YAMLFile.insert returns at once, Database.insert is awaited
Failure(s, st, clk) ==
    \E t1 \in Readings(clk) : \E t2 \in Readings(t1) :
        LET obs == Observation(sites[s].url, ERROR_STATUS, t1, t2, 0, ERROR_TEXT)
        IN /\ clock' = t2
           /\ IF datastore = "YAMLFile"
              THEN /\ results' = YAMLInsert(results, obs)
                   /\ handed' = Append(handed, obs)
                   /\ AfterFailure(s, Count(st, s, 1, 1))
                   /\ UNCHANGED <<pending, table>>
              ELSE /\ pending' = [pending EXCEPT ![s] = <<obs>>]
                   /\ pc' = [pc EXCEPT ![s] = "InsertFail"]
                   /\ stat' = Count(st, s, 1, 0)
                   /\ UNCHANGED <<results, handed, table, retry, sleep_for>>

\* an except clause that does not catch: the error leaves wrapper
Failure_uncaught(s, st, clk) ==
    /\ pc' = [pc EXCEPT ![s] = "Crashed"]
    /\ stat' = st
    /\ clock' = clk
    /\ UNCHANGED <<pending, results, handed, table, retry, sleep_for>>

\* wrapper: try ... except Exception
Except(s, st, clk) == Failure(s, st, clk)

\* ClientSession() and session.get(site.url): raise_for_status is left at its
\* default, no status code raises
StatusRaises(status) == FALSE

\* a get that holds the event loop until it returns: no site starts a probe
\* while the probe of another is out
StartProbe_blocking(s) ==
    /\ \A t \in Sites \ {s} : pc[t] # "Probing"
    /\ mainpc = "gather"
    /\ pc[s] \in {"Ready", "Sleeping"}
    /\ TotalProbes < MaxProbes
    /\ \E t \in Readings(clock) :
        /\ clock' = t
        /\ request_time' = [request_time EXCEPT ![s] = t]
    /\ pc' = [pc EXCEPT ![s] = "Probing"]
    /\ stat' = [stat EXCEPT ![s].probes = @ + 1, ![s].cycleCalls = 0]
    /\ sleep_for' = [sleep_for EXCEPT ![s] = 0]
    /\ UNCHANGED <<config, server_status, server_text, ticking,
                   max_retry, datastore, mainpc,
                   sites, retry, pending, results, handed, table, file, sup>>

\* the top of wrapper's loop: monitor_website up to the await of session.get
StartProbe(s) ==
    /\ mainpc = "gather"
    /\ pc[s] \in {"Ready", "Sleeping"}
    /\ TotalProbes < MaxProbes
    /\ \E t \in Readings(clock) :
        /\ clock' = t
        /\ request_time' = [request_time EXCEPT ![s] = t]
    /\ pc' = [pc EXCEPT ![s] = "Probing"]
    /\ stat' = [stat EXCEPT ![s].probes = @ + 1, ![s].cycleCalls = 0]
    /\ sleep_for' = [sleep_for EXCEPT ![s] = 0]
    /\ UNCHANGED <<config, server_status, server_text, ticking,
                   max_retry, datastore, mainpc,
                   sites, retry, pending, results, handed, table, file, sup>>

\* session.get or resp.text raises: connection refused, timeout, undecodable body
ProbeFail(s) ==
    /\ mainpc = "gather"
    /\ pc[s] = "Probing"
    /\ Except(s, stat, clock)
    /\ UNCHANGED <<config, server_status, server_text, ticking,
                   max_retry, datastore, mainpc,
                   sites, request_time, file, sup>>

\* the response is read: monitor_website from response_time to the insert
ProbeResponse(s) ==
    /\ mainpc = "gather"
    /\ pc[s] = "Probing"
    /\ \E t \in Readings(clock) :
        LET pat == sites[s].pattern
            st1 == [stat EXCEPT ![s].responses = @ + 1]
            obs == Observation(sites[s].url, server_status, request_time[s], t,
                               t - request_time[s], RegexCheck(pat, server_text))
        IN IF StatusRaises(server_status)
           THEN Except(s, stat, clock)
           ELSE IF Truthy(pat) /\ ~Compiles(pat.src)
           THEN Except(s, st1, t)
           ELSE /\ clock' = t
                /\ IF datastore = "YAMLFile"
                   THEN /\ results' = YAMLInsert(results, obs)
                        /\ handed' = Append(handed, obs)
                        /\ retry' = [retry EXCEPT ![s] = RetryAfterSuccess(@)]
                        /\ Sleep(s, Count(st1, s, 1, 1))
                        /\ UNCHANGED <<pending, table>>
                   ELSE /\ pending' = [pending EXCEPT ![s] = <<obs>>]
                        /\ stat' = Count(st1, s, 1, 0)
                        /\ pc' = [pc EXCEPT ![s] = "InsertObs"]
                        /\ UNCHANGED <<results, handed, table, retry, sleep_for>>
    /\ UNCHANGED <<config, server_status, server_text, ticking,
                   max_retry, datastore, mainpc,
                   sites, request_time, file, sup>>

\* Database.insert of a probe's observation commits; then asyncio.sleep
InsertObsDone(s) ==
    /\ mainpc = "gather"
    /\ pc[s] = "InsertObs"
    /\ table' = Append(table, Row(table, pending[s][1]))
    /\ pending' = [pending EXCEPT ![s] = <<>>]
    /\ retry' = [retry EXCEPT ![s] = RetryAfterSuccess(@)]
    /\ Sleep(s, Count(stat, s, 0, 1))
    /\ UNCHANGED <<config, server_status, server_text, ticking,
                   max_retry, datastore, mainpc,
                   sites, request_time, results, handed, file, clock, sup>>

\* Database.insert of a probe's observation raises inside monitor_website
InsertObsRaise(s) ==
    /\ mainpc = "gather"
    /\ pc[s] = "InsertObs"
    /\ Except(s, stat, clock)
    /\ UNCHANGED <<config, server_status, server_text, ticking,
                   max_retry, datastore, mainpc,
                   sites, request_time, file, sup>>

\* Database.insert of the failure record commits; then the retry test
InsertFailDone(s) ==
    /\ mainpc = "gather"
    /\ pc[s] = "InsertFail"
    /\ table' = Append(table, Row(table, pending[s][1]))
    /\ pending' = [pending EXCEPT ![s] = <<>>]
    /\ AfterFailure(s, Count(stat, s, 0, 1))
    /\ UNCHANGED <<config, server_status, server_text, ticking,
                   max_retry, datastore, mainpc,
                   sites, request_time, results, handed, file, clock, sup>>

\* Database.insert of the failure record raises inside the except clause:
\* nothing catches it, the task ends with the exception
InsertFailRaise(s) ==
    /\ mainpc = "gather"
    /\ pc[s] = "InsertFail"
    /\ pending' = [pending EXCEPT ![s] = <<>>]
    /\ pc' = [pc EXCEPT ![s] = "Crashed"]
    /\ UNCHANGED <<config, server_status, server_text, ticking,
                   max_retry, datastore, mainpc,
                   sites, retry, request_time, results, handed, table, file,
                   clock, stat, sleep_for, sup>>

\* -------------------------------------------------------------------- main
\* main: parse_args, WSData.max_retry = config['max_retry'], and the choice of
\* the datastore; create_table is awaited for the Database only
Configure ==
    /\ mainpc = "parse"
    /\ max_retry' = config.max_retry
    /\ IF config.results2file
       THEN datastore' = "YAMLFile" /\ mainpc' = "sites"
       ELSE datastore' = "Database" /\ mainpc' = "create_table"
    /\ UNCHANGED <<config, server_status, server_text, sleep_for, ticking,
                   sites, pc, retry,
                   request_time, pending, results, handed, table, file, clock,
                   stat, sup>>

\* Database.create_table commits
CreateTableDone ==
    /\ mainpc = "create_table"
    /\ mainpc' = "sites"
    /\ sup' = [sup EXCEPT !.create_calls = @ + 1]
    /\ UNCHANGED <<config, server_status, server_text, sleep_for, ticking,
                   max_retry, datastore, sites,
                   pc, retry, request_time, pending, results, handed, table,
                   file, clock, stat>>

\* a main that goes on after a failed create_table
CreateTableRaise_ignored(operational) ==
    /\ mainpc = "create_table"
    /\ mainpc' = "sites"
    /\ sup' = [sup EXCEPT !.create_calls = @ + 1, !.create_failed = TRUE]
    /\ UNCHANGED <<config, server_status, server_text, sleep_for, ticking,
                   max_retry, datastore, sites,
                   pc, retry, request_time, pending, results, handed, table,
                   file, clock, stat>>

\* Database.create_table raises: psycopg.OperationalError is turned into
\* sys.exit("Error creating database table ..."), any other error leaves main
CreateTableRaise(operational) ==
    /\ mainpc = "create_table"
    /\ mainpc' = IF operational THEN "exit_prepare" ELSE "exit_traceback"
    /\ sup' = [sup EXCEPT !.create_calls = @ + 1, !.create_failed = TRUE]
    /\ UNCHANGED <<config, server_status, server_text, sleep_for, ticking,
                   max_retry, datastore, sites,
                   pc, retry, request_time, pending, results, handed, table,
                   file, clock, stat>>

\* main: sites = [WSData(**site) ...], the session, and gather's tasks; an
\* AssertionError of WSData.__init__ leaves main
BuildSites ==
    /\ mainpc = "sites"
    /\ LET built == [s \in Sites |-> FromEntry(config.sites[s])]
       IN IF \A s \in Sites : built[s].ok
          THEN /\ sites' = built
               /\ pc' = [s \in Sites |-> "Ready"]
               /\ mainpc' = "gather"
               /\ sup' = [sup EXCEPT !.launched = TRUE]
          ELSE /\ mainpc' = "exit_traceback"
               /\ UNCHANGED <<sites, pc, sup>>
    /\ UNCHANGED <<config, server_status, server_text, sleep_for, ticking,
                   max_retry, datastore, retry,
                   request_time, pending, results, handed, table, file, clock,
                   stat>>

\* a gather that returns as soon as one task is done
GatherDone_first ==
    /\ mainpc = "gather"
    /\ \E s \in Sites : pc[s] = "Stopped"
    /\ mainpc' = "exit_0"
    /\ UNCHANGED <<config, server_status, server_text, sleep_for, ticking,
                   max_retry, datastore, sites,
                   pc, retry, request_time, pending, results, handed, table,
                   file, clock, stat, sup>>

\* asyncio.gather returns when every wrapper has returned: main returns, the
\* process ends with status 0
GatherDone ==
    /\ mainpc = "gather"
    /\ \A s \in Sites : pc[s] = "Stopped"
    /\ mainpc' = "exit_0"
    /\ UNCHANGED <<config, server_status, server_text, sleep_for, ticking,
                   max_retry, datastore, sites,
                   pc, retry, request_time, pending, results, handed, table,
                   file, clock, stat, sup>>

\* asyncio.run's cancellation of the tasks that are left: CancelledError is
\* thrown into each at its await; it is no Exception, so wrapper's except
\* clause lets it through and no insert is issued
Cancel(p) == [s \in Sites |-> IF p[s] \in Active THEN "Cancelled" ELSE p[s]]

\* asyncio.gather hands the first exception of a task to main; asyncio.run
\* cancels the tasks that are left and re-raises: traceback, no save
GatherRaise ==
    /\ mainpc = "gather"
    /\ \E s \in Sites : pc[s] = "Crashed"
    /\ mainpc' = "exit_traceback"
    /\ pc' = Cancel(pc)
    /\ sleep_for' = [s \in Sites |-> 0]
    /\ pending' = [s \in Sites |-> <<>>]
    /\ UNCHANGED <<config, server_status, server_text, ticking,
                   max_retry, datastore, sites,
                   retry, request_time, results, handed, table, file, clock,
                   stat, sup>>

\* YAMLFile.save: open(filename, 'w') and yaml.dump(self.results, fo)
Save(rs) == [exists |-> TRUE, doc |-> Dump(rs)]

\* SIGINT: asyncio.run cancels main and every task and raises
\* KeyboardInterrupt; __main__ then runs datastore.save() and sys.exit("Bye!").
\* Only YAMLFile defines save: on None and on a Database the attribute lookup
\* raises AttributeError and the process ends with a traceback
Interrupt ==
    /\ mainpc \in {"parse", "create_table", "sites", "gather"}
    /\ pc' = Cancel(pc)
    /\ sleep_for' = [s \in Sites |-> 0]
    /\ pending' = [s \in Sites |-> <<>>]
    /\ IF datastore = "YAMLFile"
       THEN /\ file' = Save(results)
            /\ sup' = [sup EXCEPT !.interrupted = TRUE, !.save_calls = @ + 1]
            /\ mainpc' = "exit_bye"
       ELSE /\ sup' = [sup EXCEPT !.interrupted = TRUE]
            /\ mainpc' = "exit_traceback"
            /\ UNCHANGED file
    /\ UNCHANGED <<config, server_status, server_text, ticking,
                   max_retry, datastore, sites,
                   retry, request_time, results, handed, table, clock, stat>>

Next ==
    \/ Configure
    \/ CreateTableDone
    \/ \E operational \in BOOLEAN : CreateTableRaise(operational)
    \/ BuildSites
    \/ GatherDone
    \/ GatherRaise
    \/ Interrupt
    \/ \E s \in Sites :
        \/ StartProbe(s)
        \/ ProbeFail(s)
        \/ ProbeResponse(s)
        \/ InsertObsDone(s)
        \/ InsertObsRaise(s)
        \/ InsertFailDone(s)
        \/ InsertFailRaise(s)

Spec == Init /\ [][Next]_vars

\* main up to the launch of the tasks
NextWSData ==
    \/ Configure
    \/ CreateTableDone
    \/ BuildSites

SpecWSData == InitWSData /\ [][NextWSData]_vars


\* ------------------------------------------------------------------ claims

\* C1: a loop whose every probe attempt fails, with a retry budget
\* max_retry = n >= 0, never starts an (n+2)-th probe, writes at most n+1
\* records, is Stopped exactly when the (n+1)-th is written, and when no site
\* ever got a response every record in the sink is a Failure Observation.
C1_FailingLoopWritesBudgetPlusOne ==
    sup.launched /\ max_retry >= 0 =>
        /\ \A s \in Sites :
            stat[s].responses = 0 =>
                /\ stat[s].probes <= max_retry + 1
                /\ stat[s].written <= max_retry + 1
                /\ pc[s] = "Stopped" <=> stat[s].written = max_retry + 1
                /\ pc[s] = "Stopped" => stat[s].probes = max_retry + 1
        /\ (\A s \in Sites : stat[s].responses = 0) =>
                LET sink == IF datastore = "YAMLFile" THEN handed
                            ELSE [i \in 1..Len(table) |-> table[i].obs]
                IN \A i \in 1..Len(sink) :
                        sink[i].status_code = 444 /\ sink[i].regex_check = ERROR_TEXT

\* C1 witness: with max_retry = 2 a site that never got a response is Stopped
\* after three probes and three records.
C1_Witness ==
    \E s \in Sites :
        /\ max_retry = 2
        /\ pc[s] = "Stopped"
        /\ stat[s].responses = 0
        /\ stat[s].probes = 3
        /\ stat[s].written = 3

\* C2 (as claimed): when a cycle has ended (the loop sleeps or has stopped),
\* exactly one insert call was issued in it and one Observation written.
C2_OneInsertCallPerCycle ==
    \A s \in Sites :
        pc[s] \in {"Sleeping", "Stopped"} => stat[s].cycleCalls = 1

\* C3 (as claimed): after an interrupt that arrived while the loops were
\* running, no loop is left running and save was called exactly once.
C3_InterruptSavesOnce ==
    sup.interrupted /\ sup.launched =>
        /\ \A s \in Sites : pc[s] \notin Active
        /\ sup.save_calls = 1

\* C4 (as claimed): whenever the interrupt arrives, finalize completes and the
\* process exits with the farewell status.
C4_FinalizeCompletes ==
    sup.interrupted => mainpc = "exit_bye"

\* C5 (as claimed): with the File sink, when the process has ended in an
\* orderly way (interrupt, or every loop Stopped) save was called once and the
\* file holds every Observation recorded.
C5_FileSavedAtShutdown ==
    datastore = "YAMLFile" /\ mainpc \in {"exit_0", "exit_bye"} =>
        /\ sup.save_calls = 1
        /\ file.exists
        /\ Len(file.doc) = Len(handed)

\* C6: with the File sink, after N insert calls the list holds N single-entry
\* mappings in call order, each keyed by its (request_time, url) and valued by
\* the Observation handed in, and a saved document holds exactly those N entries.
C6_FileRoundTrip ==
    datastore = "YAMLFile" =>
        /\ Len(results) = Len(handed)
        /\ \A i \in 1..Len(results) :
            /\ DOMAIN results[i] = {<<handed[i].request_time, handed[i].url>>}
            /\ results[i][<<handed[i].request_time, handed[i].url>>] = handed[i]
        /\ file.exists =>
            /\ Len(file.doc) = Len(handed)
            /\ \A i \in 1..Len(file.doc) :
                file.doc[i] = {<< <<handed[i].request_time, handed[i].url>>, handed[i] >>}

\* C6 witness: a saved document with two entries under the same key that carry
\* different Observations.
C6_Witness ==
    /\ file.exists
    /\ \E i, j \in 1..Len(file.doc) :
        /\ i < j
        /\ DOMAIN results[i] = DOMAIN results[j]
        /\ file.doc[i] # file.doc[j]

\* C7 (as claimed): create_table has been called once when the loops are
\* launched, with either sink.
C7_PrepareCalledOnce ==
    sup.launched => sup.create_calls = 1

\* C7 (amended): with the Database create_table is called once and has
\* completed when the loops are launched, with the YAMLFile main never calls
\* it; if it fails, with any error, the process ends with nothing launched, no
\* probe attempted and no insert issued.
C7_PrepareBeforeLaunch ==
    /\ sup.launched =>
        /\ sup.create_calls = IF datastore = "Database" THEN 1 ELSE 0
        /\ ~sup.create_failed
    /\ mainpc \in {"parse", "create_table"} => ~sup.launched /\ TotalProbes = 0
    /\ sup.create_failed =>
        /\ mainpc \in {"exit_prepare", "exit_traceback"}
        /\ ~sup.launched
        /\ TotalProbes = 0
        /\ TotalCalls = 0
        /\ table = <<>>

\* C7 witness: create_table failed with an error other than OperationalError
\* and the process has ended.
C7_Witness ==
    sup.create_failed /\ mainpc = "exit_traceback" /\ sup.create_calls = 1

\* C8: once main has built its site list, the loops were launched exactly when
\* the configured check_interval is within [5, 300]; otherwise main ended with
\* the assertion's traceback; every launched site keeps the url, the
\* check_interval (default 5) and the pattern (default None) it was given.
C8_IntervalRange ==
    mainpc \in {"gather", "exit_traceback"} =>
        LET ci == config.sites[1].check_interval
        IN /\ sup.launched <=> (5 <= ci /\ ci <= 300)
           /\ sup.launched <=> mainpc = "gather"
           /\ sup.launched =>
                \A s \in Sites :
                    LET e == config.sites[s]
                    IN /\ sites[s].url = e.url
                       /\ sites[s].check_interval =
                            (IF "check_interval" \in DOMAIN e
                             THEN e.check_interval ELSE 5)
                       /\ sites[s].pattern =
                            (IF "pattern" \in DOMAIN e THEN e.pattern ELSE None)
                       /\ 5 <= sites[s].check_interval
                       /\ sites[s].check_interval <= 300

\* C8 witness: loops launched for a site whose check_interval is 300, next to a
\* site built from the defaults.
C8_Witness ==
    /\ sup.launched
    /\ sites[1].check_interval = 300
    /\ \E s \in Sites : sites[s].check_interval = 5 /\ sites[s].pattern = None

\* C9: a step in which one site's loop reaches Stopped changes nothing of any
\* other site's loop and does not end the process, and the process ends with
\* status 0 only when every loop is Stopped.
C9_StopLeavesSiblings ==
    /\ [](mainpc = "exit_0" => \A s \in Sites : pc[s] = "Stopped")
    /\ [][\A s \in Sites :
            pc[s] # "Stopped" /\ pc'[s] = "Stopped" =>
                /\ mainpc' = "gather"
                /\ \A t \in Sites \ {s} :
                    /\ pc'[t] = pc[t]
                    /\ retry'[t] = retry[t]
                    /\ stat'[t] = stat[t]
                    /\ pending'[t] = pending[t]]_vars

\* C9 witness: one site is Stopped while another, still monitored, has written
\* a record since and sleeps.
C9_Witness ==
    \E s, t \in Sites :
        /\ mainpc = "gather"
        /\ pc[s] = "Stopped"
        /\ pc[t] = "Sleeping"
        /\ stat[t].probes > stat[s].probes

\* C10: a step in which a probe raises (no response obtained) issues one
\* insert of a Failure Observation for that site, leaves the task inside
\* wrapper on the retry path (stopped only if retry = max_retry, else retry
\* incremented before the sleep), and changes no other loop nor the process.
C10_ProbeErrorRecovered ==
    [][\A s \in Sites :
        (pc[s] = "Probing" /\ pc'[s] # "Probing" /\ mainpc' = "gather"
         /\ stat'[s].responses = stat[s].responses) =>
            /\ stat'[s].calls = stat[s].calls + 1
            /\ pc'[s] \in {"InsertFail", "Sleeping", "Stopped"}
            /\ pc'[s] = "InsertFail" =>
                /\ datastore = "Database"
                /\ pending'[s][1].status_code = 444
                /\ pending'[s][1].url = sites[s].url
            /\ pc'[s] # "InsertFail" =>
                /\ handed'[Len(handed')].status_code = 444
                /\ handed'[Len(handed')].url = sites[s].url
                /\ Len(handed') = Len(handed) + 1
            /\ pc'[s] = "Stopped" => retry[s] = max_retry
            /\ pc'[s] = "Sleeping" => retry'[s] = retry[s] + 1
            /\ \A t \in Sites \ {s} : pc'[t] = pc[t] /\ retry'[t] = retry[t]]_vars

\* C10 witness: a site whose only probe raised has its Failure Observation
\* written and sleeps with retry = 1 while the process runs.
C10_Witness ==
    \E s \in Sites :
        /\ mainpc = "gather"
        /\ stat[s].probes = 1
        /\ stat[s].responses = 0
        /\ stat[s].written = 1
        /\ pc[s] = "Sleeping"
        /\ retry[s] = 1

\* ----------------------------------------------------------------------------
\* C11 (as claimed): an insert that raises is not handled as a probe failure.
\* Whenever a site's awaited insert ends without committing a row, be it the
\* insert of a probe's Observation or the insert of a Failure Observation, the
\* error leaves the cycle: the loop ends with it, no further insert is issued
\* for it and the retry counter is untouched.
C11_SinkErrorPropagates ==
    [][\A s \in Sites :
        (/\ pc[s] \in {"InsertObs", "InsertFail"}
         /\ pc'[s] # pc[s]
         /\ mainpc' = "gather"
         /\ stat'[s].written = stat[s].written) =>
            /\ pc'[s] = "Crashed"
            /\ stat'[s].calls = stat[s].calls
            /\ retry'[s] = retry[s]
            /\ pending'[s] = <<>>]_vars

\* ----------------------------------------------------------------------------
\* C12 (as claimed, the part about patterns that are set): for every site
\* whose pattern is not None, the empty string included, the regexCheck of
\* the Observation that a probe hands to the sink is "<pattern> found" when
\* the pattern occurs somewhere in the body and "no match found" when it does
\* not; it is never the outcome of a site without a pattern.
C12_RegexCheckOutcome ==
    [][\A s \in Sites :
        (stat'[s].responses = stat[s].responses + 1
         /\ stat'[s].failures = stat[s].failures
         /\ pc'[s] \in {"InsertObs", "Sleeping"}
         /\ ~sites[s].pattern.isNone) =>
            LET obs == IF pc'[s] = "InsertObs" THEN pending'[s][1]
                       ELSE handed'[Len(handed')]
                pat == sites[s].pattern
                occurs == \E i \in 1..(Len(server_text) + 1) :
                            \E j \in 0..Len(server_text) :
                                SubSeq(server_text, i, j) = pat.src
            IN obs.regex_check =
                 IF occurs THEN pat.src \o <<" ", "f", "o", "u", "n", "d">>
                 ELSE <<"n", "o", " ", "m", "a", "t", "c", "h", " ",
                        "f", "o", "u", "n", "d">>]_vars

\* ----------------------------------------------------------------------------
\* C13: no site's loop blocks another. In every reachable state in which the
\* loop of a site a is inside a probe that has not returned, or inside its
\* sleep, the loop of every other running site b can take its next step: start
\* its next probe, get the outcome of the probe it is in, or get the outcome
\* of the insert it awaits.
C13_NoLoopBlocksAnother ==
    \A a \in Sites : \A b \in Sites \ {a} :
        (mainpc = "gather" /\ pc[a] \in {"Probing", "Sleeping"}) =>
            /\ (pc[b] \in {"Ready", "Sleeping"} /\ TotalProbes < MaxProbes)
                    => ENABLED StartProbe(b)
            /\ pc[b] = "Probing"
                    => (ENABLED ProbeFail(b)) /\ (ENABLED ProbeResponse(b))
            /\ pc[b] = "InsertObs"
                    => (ENABLED InsertObsDone(b)) /\ (ENABLED InsertObsRaise(b))
            /\ pc[b] = "InsertFail"
                    => (ENABLED InsertFailDone(b)) /\ (ENABLED InsertFailRaise(b))

\* C13 witness: a site is inside its first probe, which has not returned,
\* while another has finished a cycle and is inside its second probe.
C13_Witness ==
    \E a \in Sites : \E b \in Sites \ {a} :
        /\ mainpc = "gather"
        /\ pc[a] = "Probing" /\ stat[a].probes = 1
        /\ pc[b] = "Probing" /\ stat[b].probes = 2 /\ stat[b].written = 1

\* ----------------------------------------------------------------------------
\* C14 (as claimed): the retry budget is cumulative. No step lowers a site's
\* retry counter, and a loop becomes Stopped only in the step that finishes
\* its (max_retry + 1)-th failure, in a cycle whose probe failed: the Failure
\* Observation is the only record the stopping cycle handed to the sink,
\* never the second one after the Observation of a probe that went well.
C14_StopsAtBudgetOnly ==
    [][\A s \in Sites :
        /\ retry'[s] >= retry[s]
        /\ (pc[s] # "Stopped" /\ pc'[s] = "Stopped") =>
            /\ stat'[s].failures = max_retry + 1
            /\ stat'[s].failures = stat[s].failures + 1
            /\ stat'[s].cycleCalls = 1]_vars

\* ----------------------------------------------------------------------------
\* C15: with a max_retry of zero or more, every site's retry counter stays
\* between 0 and max_retry, and it changes only in a step of that site's own
\* loop that ends a failed cycle: the step in which the site's Failure
\* Observation is written, where it goes up by one; no step of another site
\* and no successful cycle changes it.
C15_RetryRange ==
    /\ [](max_retry >= 0 => \A s \in Sites : 0 <= retry[s] /\ retry[s] <= max_retry)
    /\ [][\A s \in Sites :
            retry'[s] # retry[s] =>
                /\ retry'[s] = retry[s] + 1
                /\ pc[s] \in {"Probing", "InsertObs", "InsertFail"}
                /\ pc'[s] = "Sleeping"
                /\ stat'[s].failures = stat[s].failures + 1
                /\ stat'[s].written = stat[s].written + 1
                /\ \A t \in Sites \ {s} :
                    retry'[t] = retry[t] /\ pc'[t] = pc[t]]_vars

\* C15 witness: with max_retry = 2 one site has used its whole budget
\* (retry = 2) in two failed cycles, while the counter of another site, whose
\* probe went well in between, is still 0.
C15_Witness ==
    \E s \in Sites : \E t \in Sites \ {s} :
        /\ max_retry = 2
        /\ retry[s] = 2
        /\ stat[s].failures = 2
        /\ pc[s] = "Sleeping"
        /\ retry[t] = 0
        /\ stat[t].written = 1

\* ----------------------------------------------------------------------------
\* C16: a site's loop is strictly sequential. Every probe is followed by its
\* sink write and then by one sleep of exactly the site's configured
\* check_interval (5 when the entry names none) before the next probe: a
\* probe starts only at launch or out of that sleep, the sleep begins only in
\* the step that completes a write, a sleeping site has slept once per probe,
\* a site inside a cycle once per earlier probe, and the cycle that stops the
\* loop is followed by no sleep and no further probe.
C16_ProbeWriteSleep ==
    /\ [](mainpc = "gather" =>
            \A s \in Sites :
                /\ pc[s] = "Sleeping" =>
                    /\ sleep_for[s] =
                        IF "check_interval" \in DOMAIN config.sites[s]
                        THEN config.sites[s].check_interval ELSE 5
                    /\ stat[s].sleeps = stat[s].probes
                    /\ stat[s].written = stat[s].probes
                /\ pc[s] \in {"Probing", "InsertObs", "InsertFail", "Crashed"} =>
                    /\ sleep_for[s] = 0
                    /\ stat[s].sleeps = stat[s].probes - 1
                /\ pc[s] = "Stopped" =>
                    /\ sleep_for[s] = 0
                    /\ stat[s].sleeps = stat[s].probes - 1
                    /\ stat[s].written = stat[s].probes)
    /\ [][\A s \in Sites :
            /\ stat'[s].probes # stat[s].probes =>
                /\ stat'[s].probes = stat[s].probes + 1
                /\ pc[s] = "Sleeping" \/ (pc[s] = "Ready" /\ stat[s].probes = 0)
                /\ pc'[s] = "Probing"
            /\ stat'[s].sleeps # stat[s].sleeps =>
                /\ stat'[s].sleeps = stat[s].sleeps + 1
                /\ stat'[s].written = stat[s].written + 1
                /\ pc'[s] = "Sleeping"
            /\ pc[s] = "Stopped" =>
                pc'[s] = "Stopped" /\ stat'[s] = stat[s]]_vars

\* C16 witness: the site with check_interval 300 sleeps for 300 after its
\* second cycle, and a site with the default interval has stopped after its
\* only cycle without a sleep.
C16_Witness ==
    \E s \in Sites : \E t \in Sites \ {s} :
        /\ mainpc = "gather"
        /\ "check_interval" \in DOMAIN config.sites[s]
        /\ config.sites[s].check_interval = 300
        /\ pc[s] = "Sleeping"
        /\ sleep_for[s] = 300
        /\ stat[s].probes = 2
        /\ stat[s].sleeps = 2
        /\ pc[t] = "Stopped"
        /\ stat[t].probes = 1
        /\ stat[t].sleeps = 0

\* ----------------------------------------------------------------------------
\* C17 (as claimed): every Failure Observation that a loop writes has the
\* url of its site, status 444, time_diff 0, regexCheck "ERROR", and a
\* request_time equal to its response_time, both being one reading of the
\* clock, also when the clock advances while the failure is handled.
C17_FailureObservationFields ==
    [][\A s \in Sites :
        stat'[s].failures = stat[s].failures + 1 =>
            LET obs == IF datastore = "YAMLFile" THEN handed'[Len(handed')]
                       ELSE table'[Len(table')].obs
            IN /\ obs.url = sites[s].url
               /\ obs.status_code = 444
               /\ obs.time_diff = 0
               /\ obs.regex_check = <<"E", "R", "R", "O", "R">>
               /\ obs.request_time = obs.response_time]_vars

\* ----------------------------------------------------------------------------
\* C18 (as claimed): a probe that obtains an HTTP response, whatever its
\* status code, is a success. In the step in which the response is read the
\* Observation handed to the sink carries the status the server answered
\* with, no Failure Observation is written and retry is not incremented; and
\* while or after that Observation is written no Failure Observation is
\* issued for the probe: the loop goes to its sleep.
C18_ResponseIsSuccess ==
    [][\A s \in Sites :
        /\ stat'[s].responses = stat[s].responses + 1 =>
            /\ pc'[s] \in {"InsertObs", "Sleeping"}
            /\ stat'[s].failures = stat[s].failures
            /\ retry'[s] = retry[s]
            /\ LET obs == IF pc'[s] = "InsertObs" THEN pending'[s][1]
                          ELSE handed'[Len(handed')]
               IN obs.status_code = server_status /\ obs.url = sites[s].url
        /\ (pc[s] = "InsertObs" /\ mainpc' = "gather") =>
            /\ pc'[s] \in {"InsertObs", "Sleeping", "Crashed"}
            /\ stat'[s].calls = stat[s].calls
            /\ retry'[s] = retry[s]]_vars

\* ----------------------------------------------------------------------------
\* C19 (as claimed): the sentinel record (status 444, regexCheck "ERROR") is
\* issued only for a probe that failed before a status was obtained. A step
\* in which a site hands such a record to the sink is the step in which its
\* probe raised with no response read; it is never the step in which the
\* response was read (a pattern that does not compile), nor a step taken
\* after the probe's own Observation was handed over (a failed sink write).
C19_SentinelOnlyWithoutStatus ==
    [][\A s \in Sites :
        (stat'[s].calls = stat[s].calls + 1
         /\ LET obs == IF datastore = "YAMLFile" THEN handed'[Len(handed')]
                       ELSE pending'[s][1]
            IN obs.status_code = 444
               /\ obs.regex_check = <<"E", "R", "R", "O", "R">>) =>
            /\ pc[s] = "Probing"
            /\ stat'[s].responses = stat[s].responses]_vars

\* ----------------------------------------------------------------------------
\* C20 (as claimed, in the form a finite run refutes): a loop whose probes
\* all fail reaches Stopped after finitely many cycles for every integer
\* max_retry, negative ones too: once such a loop has written its first
\* Failure Observation and more of them than max_retry, it is Stopped and
\* does not go on to another sleep and probe.
C20_FailingLoopStops ==
    \A s \in Sites :
        (/\ mainpc = "gather"
         /\ stat[s].responses = 0
         /\ stat[s].failures >= 1
         /\ stat[s].failures > max_retry) => pc[s] = "Stopped"

=============================================================================
